---- MODULE Spec2Model ----
(***************************************************************************)
(* Wire format of the debugger GC-protection records declared in           *)
(* src/Native/Runtime/Debug.h: the two enumerations, the two structs, the  *)
(* layout the structs get from the declared field order and widths, and    *)
(* the bytes a producer stores and a consumer loads through them.          *)
(*                                                                         *)
(* Unsigned integers wider than 16 bits are kept as sequences of 16-bit    *)
(* limbs, least-significant limb first, so that 32- and 64-bit values keep *)
(* their full width.                                                       *)
(***************************************************************************)
EXTENDS Integers, Sequences, FiniteSets, TLC

VARIABLES
    byteOrder,   \* byte order of the target: "little" or "big"
    alignCap,    \* largest alignment the target gives a scalar in a struct
    msgBuf,      \* the bytes of the shared GcProtectionMessage
    msgState,    \* "empty", "ready" (written, not yet read) or "read"
    sentMsg,     \* the field values the producer stored last
    recvMsg,     \* the field values the consumer loaded last
    msgClass,    \* how the consumer classified recvMsg.commandCode
    reqBuf,      \* the bytes of the shared GcProtectionRequest
    reqState,    \* "empty", "ready" or "read"
    sentReq,     \* the field values the producer stored last
    recvReq,     \* the field values the consumer loaded last
    reqClass     \* how the consumer classified recvReq.kind

vars == << byteOrder, alignCap, msgBuf, msgState, sentMsg, recvMsg, msgClass,
           reqBuf, reqState, sentReq, recvReq, reqClass >>

msgVars == << msgBuf, msgState, sentMsg, recvMsg, msgClass >>
reqVars == << reqBuf, reqState, sentReq, recvReq, reqClass >>

(***************************************************************************)
(* Fixed-width unsigned integers                                           *)
(***************************************************************************)
U16(n) == << n % 65536 >>
U32(n) == << n % 65536, (n \div 65536) % 65536 >>
U64(n) == << n % 65536, (n \div 65536) % 65536, 0, 0 >>

U16Max == << 65535 >>
U32Max == << 65535, 65535 >>
U64Max == << 65535, 65535, 65535, 65535 >>

(***************************************************************************)
(* enum DebuggerGcProtectionMessage : uint32_t                             *)
(***************************************************************************)
ConservativeReportingBufferReady == 3

RequestBufferReady_Off == ConservativeReportingBufferReady - 2
RequestBufferReady == 2

(***************************************************************************)
(* enum DebuggerGcProtectionRequestKind : uint16_t                         *)
(***************************************************************************)
EnsureConservativeReporting == 1

RemoveConservativeReporting == 2

RemoveHandle_Dup == RemoveConservativeReporting
RemoveHandle_Next == RemoveConservativeReporting + 2
RemoveHandle == 3

(***************************************************************************)
(* The structs: fields in declaration order, each with its width in bytes  *)
(***************************************************************************)
GcProtectionMessage_AddressLast == <<
    [name |-> "commandCode",   size |-> 4],
    [name |-> "bufferAddress", size |-> 8],
    [name |-> "unused",        size |-> 4] >>
GcProtectionMessage_UnusedFirst == <<
    [name |-> "unused",        size |-> 4],
    [name |-> "commandCode",   size |-> 4],
    [name |-> "bufferAddress", size |-> 8] >>
GcProtectionMessage_Narrow == <<
    [name |-> "commandCode",   size |-> 4],
    [name |-> "unused",        size |-> 4],
    [name |-> "bufferAddress", size |-> 4] >>
GcProtectionMessage_ShortCode == <<
    [name |-> "commandCode",   size |-> 2],
    [name |-> "unused",        size |-> 4],
    [name |-> "bufferAddress", size |-> 8] >>
GcProtectionMessage == <<
    [name |-> "commandCode",   size |-> 4],
    [name |-> "unused",        size |-> 4],
    [name |-> "bufferAddress", size |-> 8] >>

GcProtectionRequest_IdFirst == <<
    [name |-> "kind",       size |-> 2],
    [name |-> "identifier", size |-> 4],
    [name |-> "size",       size |-> 2],
    [name |-> "address",    size |-> 8] >>
GcProtectionRequest_ShortId == <<
    [name |-> "kind",       size |-> 2],
    [name |-> "size",       size |-> 2],
    [name |-> "identifier", size |-> 2],
    [name |-> "address",    size |-> 8] >>
GcProtectionRequest_SizeFirst == <<
    [name |-> "size",       size |-> 2],
    [name |-> "kind",       size |-> 2],
    [name |-> "identifier", size |-> 4],
    [name |-> "address",    size |-> 8] >>
GcProtectionRequest == <<
    [name |-> "kind",       size |-> 2],
    [name |-> "size",       size |-> 2],
    [name |-> "identifier", size |-> 4],
    [name |-> "address",    size |-> 8] >>

(***************************************************************************)
(* Struct layout: every field goes to the first offset at or after the end *)
(* of the previous field that is a multiple of its alignment; the struct   *)
(* is as aligned as its most aligned field and its size is a multiple of   *)
(* that alignment.                                                         *)
(***************************************************************************)
Min(a, b) == IF a < b THEN a ELSE b
Max(a, b) == IF a > b THEN a ELSE b

AlignUp(n, a) == ((n + a - 1) \div a) * a

AlignOfField(f) == Min(f.size, alignCap)

RECURSIVE EndOfField(_, _)
OffsetOfField(S, i) ==
    AlignUp(IF i = 1 THEN 0 ELSE EndOfField(S, i - 1), AlignOfField(S[i]))
EndOfField(S, i) == OffsetOfField(S, i) + S[i].size

RECURSIVE AlignOfPrefix(_, _)
AlignOfPrefix(S, i) ==
    IF i = 0 THEN 1 ELSE Max(AlignOfPrefix(S, i - 1), AlignOfField(S[i]))
AlignOf(S) == AlignOfPrefix(S, Len(S))

SizeOf(S) == AlignUp(EndOfField(S, Len(S)), AlignOf(S))

FieldIndex(S, name) == CHOOSE i \in 1..Len(S) : S[i].name = name
OffsetOf(S, name) == OffsetOfField(S, FieldIndex(S, name))
WidthOf(S, name) == S[FieldIndex(S, name)].size

(***************************************************************************)
(* Stores and loads of one scalar field in a byte buffer.  mem is the      *)
(* sequence of the buffer's bytes, mem[k + 1] being the byte at offset k.  *)
(***************************************************************************)
\* the byte of weight 256^k of value v (0 beyond the value's width)
ByteOf(v, k) ==
    LET l == (k \div 2) + 1
    IN  IF l > Len(v) THEN 0
        ELSE (v[l] \div (IF k % 2 = 0 THEN 1 ELSE 256)) % 256

\* the position, within an n-byte scalar, of its byte of weight 256^k
PosOf(k, n) == IF byteOrder = "little" THEN k ELSE n - 1 - k

StoreField(mem, S, name, v) ==
    LET off == OffsetOf(S, name)
        n   == WidthOf(S, name)
    IN  [i \in 1..Len(mem) |->
            IF i - 1 >= off /\ i - 1 < off + n
            THEN ByteOf(v, PosOf(i - 1 - off, n))
            ELSE mem[i]]

LoadField(mem, S, name) ==
    LET off == OffsetOf(S, name)
        n   == WidthOf(S, name)
    IN  [l \in 1..(n \div 2) |->
            mem[off + PosOf(2 * (l - 1), n) + 1]
            + 256 * mem[off + PosOf(2 * (l - 1) + 1, n) + 1]]

ZeroBytes(n) == [i \in 1..n |-> 0]

StoreMessage(mem, m) ==
    StoreField(
        StoreField(
            StoreField(mem, GcProtectionMessage, "commandCode", m.commandCode),
            GcProtectionMessage, "unused", m.unused),
        GcProtectionMessage, "bufferAddress", m.bufferAddress)

LoadMessage(mem) ==
    [commandCode   |-> LoadField(mem, GcProtectionMessage, "commandCode"),
     unused        |-> LoadField(mem, GcProtectionMessage, "unused"),
     bufferAddress |-> LoadField(mem, GcProtectionMessage, "bufferAddress")]

StoreRequest(mem, r) ==
    StoreField(
        StoreField(
            StoreField(
                StoreField(mem, GcProtectionRequest, "kind", r.kind),
                GcProtectionRequest, "size", r.size),
            GcProtectionRequest, "identifier", r.identifier),
        GcProtectionRequest, "address", r.address)

LoadRequest(mem) ==
    [kind       |-> LoadField(mem, GcProtectionRequest, "kind"),
     size       |-> LoadField(mem, GcProtectionRequest, "size"),
     identifier |-> LoadField(mem, GcProtectionRequest, "identifier"),
     address    |-> LoadField(mem, GcProtectionRequest, "address")]

(***************************************************************************)
(* The consumer's dispatch on the enumerated field                         *)
(***************************************************************************)
ClassifyMessage(code) ==
    IF code = U32(RequestBufferReady) THEN "RequestBufferReady"
    ELSE IF code = U32(ConservativeReportingBufferReady)
         THEN "ConservativeReportingBufferReady"
    ELSE "UnrecognizedMessage"

ClassifyRequest(kind) ==
    IF kind = U16(EnsureConservativeReporting) THEN "EnsureConservativeReporting"
    ELSE IF kind = U16(RemoveConservativeReporting)
         THEN "RemoveConservativeReporting"
    ELSE IF kind = U16(RemoveHandle) THEN "RemoveHandle"
    ELSE "UnrecognizedRequest"

(***************************************************************************)
(* Values the producer may store                                           *)
(***************************************************************************)
ByteOrders == {"little", "big"}
AlignCaps == {4, 8}

CommandCodes == {U32(0), U32(1), U32(2), U32(3), U32(4), U32Max}
UnusedValues == {U32(0), U32Max}
MessageAddresses == {U64(4096), <<513, 1027, 1541, 2055>>, U64Max}
RequestAddresses == {U64(8192), U64Max}
Messages ==
    [commandCode : CommandCodes, unused : UnusedValues, bufferAddress : MessageAddresses]

Kinds == {U16(0), U16(1), U16(2), U16(3), U16(4), U16Max}
Sizes == {U16(64), U16Max}
Identifiers == {U32(7), U32Max}
Requests ==
    [kind : Kinds, size : Sizes, identifier : Identifiers,
     address : RequestAddresses]

ZeroMessage == [commandCode |-> U32(0), unused |-> U32(0), bufferAddress |-> U64(0)]
ZeroRequest ==
    [kind |-> U16(0), size |-> U16(0), identifier |-> U32(0), address |-> U64(0)]

(***************************************************************************)
(* The state machine                                                       *)
(***************************************************************************)
Init ==
    /\ byteOrder \in ByteOrders
    /\ alignCap \in AlignCaps
    /\ msgBuf = ZeroBytes(SizeOf(GcProtectionMessage))
    /\ msgState = "empty"
    /\ sentMsg = ZeroMessage
    /\ recvMsg = ZeroMessage
    /\ msgClass = "None"
    /\ reqBuf = ZeroBytes(SizeOf(GcProtectionRequest))
    /\ reqState = "empty"
    /\ sentReq = ZeroRequest
    /\ recvReq = ZeroRequest
    /\ reqClass = "None"

\* the producer stores the fields of m through a GcProtectionMessage; the
\* consumer has discarded the copy it loaded of the previous one
WriteMessage(m) ==
    /\ msgBuf' = StoreMessage(msgBuf, m)
    /\ sentMsg' = m
    /\ msgState' = "ready"
    /\ recvMsg' = ZeroMessage
    /\ msgClass' = "None"
    /\ UNCHANGED << byteOrder, alignCap, reqVars >>

\* the consumer loads the fields through a GcProtectionMessage and dispatches
ReadMessage ==
    /\ msgState = "ready"
    /\ recvMsg' = LoadMessage(msgBuf)
    /\ msgClass' = ClassifyMessage(LoadMessage(msgBuf).commandCode)
    /\ msgState' = "read"
    /\ UNCHANGED << byteOrder, alignCap, msgBuf, sentMsg, reqVars >>

\* the producer stores the fields of r through a GcProtectionRequest; the
\* consumer has discarded the copy it loaded of the previous one
WriteRequest(r) ==
    /\ reqBuf' = StoreRequest(reqBuf, r)
    /\ sentReq' = r
    /\ reqState' = "ready"
    /\ recvReq' = ZeroRequest
    /\ reqClass' = "None"
    /\ UNCHANGED << byteOrder, alignCap, msgVars >>

\* the consumer loads the fields through a GcProtectionRequest and dispatches
ReadRequest ==
    /\ reqState = "ready"
    /\ recvReq' = LoadRequest(reqBuf)
    /\ reqClass' = ClassifyRequest(LoadRequest(reqBuf).kind)
    /\ reqState' = "read"
    /\ UNCHANGED << byteOrder, alignCap, reqBuf, sentReq, msgVars >>

Next ==
    \/ \E m \in Messages : WriteMessage(m)
    \/ ReadMessage
    \/ \E r \in Requests : WriteRequest(r)
    \/ ReadRequest

Spec == Init /\ [][Next]_vars

TypeOK ==
    /\ byteOrder \in ByteOrders
    /\ alignCap \in AlignCaps
    /\ msgState \in {"empty", "ready", "read"}
    /\ reqState \in {"empty", "ready", "read"}
    /\ \A i \in 1..Len(msgBuf) : msgBuf[i] \in 0..255
    /\ \A i \in 1..Len(reqBuf) : reqBuf[i] \in 0..255

(***************************************************************************)
(* Properties                                                              *)
(***************************************************************************)
\* the n bytes of value v, byte of least weight first
LeastSignificantFirst(v, n) ==
    [k \in 1..n |->
        (v[((k - 1) \div 2) + 1] \div (IF (k - 1) % 2 = 0 THEN 1 ELSE 256)) % 256]

\* every byte of a struct of the given size belongs to one of its fields
FieldsCover(S, size) ==
    \A k \in 0..(size - 1) :
        \E i \in 1..Len(S) : OffsetOfField(S, i) <= k /\ k < EndOfField(S, i)

\* the named constants of each enumeration a wire value stands for
MessageNamesOf(code) ==
    {c \in {<<"RequestBufferReady", RequestBufferReady>>,
            <<"ConservativeReportingBufferReady", ConservativeReportingBufferReady>>} :
        U32(c[2]) = code}
RequestNamesOf(kind) ==
    {c \in {<<"EnsureConservativeReporting", EnsureConservativeReporting>>,
            <<"RemoveConservativeReporting", RemoveConservativeReporting>>,
            <<"RemoveHandle", RemoveHandle>>} :
        U16(c[2]) = kind}

\* C1: GcProtectionMessage is 16 bytes: commandCode (4 bytes) at offset 0,
\* unused (4 bytes) at offset 4, bufferAddress (8 bytes) at offset 8; the
\* fields in declared order cover all 16 bytes without padding and
\* bufferAddress starts on an 8-byte boundary.
C1_MessageLayout ==
    /\ SizeOf(GcProtectionMessage) = 16
    /\ Len(msgBuf) = 16
    /\ [i \in 1..Len(GcProtectionMessage) |-> GcProtectionMessage[i].name]
         = <<"commandCode", "unused", "bufferAddress">>
    /\ OffsetOf(GcProtectionMessage, "commandCode") = 0
    /\ WidthOf(GcProtectionMessage, "commandCode") = 4
    /\ OffsetOf(GcProtectionMessage, "unused") = 4
    /\ WidthOf(GcProtectionMessage, "unused") = 4
    /\ OffsetOf(GcProtectionMessage, "bufferAddress") = 8
    /\ WidthOf(GcProtectionMessage, "bufferAddress") = 8
    /\ OffsetOf(GcProtectionMessage, "bufferAddress") % 8 = 0
    /\ FieldsCover(GcProtectionMessage, 16)

C1_Witness ==
    /\ alignCap = 8
    /\ msgState = "ready"
    /\ Len(msgBuf) = 16
    /\ sentMsg.bufferAddress = U64Max
    /\ \A i \in 9..16 : msgBuf[i] = 255

\* C2: GcProtectionRequest is 16 bytes: kind (2 bytes) at offset 0, size
\* (2 bytes) at offset 2, identifier (4 bytes) at offset 4, address (8 bytes)
\* at offset 8; every field is naturally aligned and there is no padding
\* between or after the fields.
C2_RequestLayout ==
    /\ SizeOf(GcProtectionRequest) = 16
    /\ Len(reqBuf) = 16
    /\ [i \in 1..Len(GcProtectionRequest) |-> GcProtectionRequest[i].name]
         = <<"kind", "size", "identifier", "address">>
    /\ OffsetOf(GcProtectionRequest, "kind") = 0
    /\ WidthOf(GcProtectionRequest, "kind") = 2
    /\ OffsetOf(GcProtectionRequest, "size") = 2
    /\ WidthOf(GcProtectionRequest, "size") = 2
    /\ OffsetOf(GcProtectionRequest, "identifier") = 4
    /\ WidthOf(GcProtectionRequest, "identifier") = 4
    /\ OffsetOf(GcProtectionRequest, "address") = 8
    /\ WidthOf(GcProtectionRequest, "address") = 8
    /\ \A i \in 1..Len(GcProtectionRequest) :
           OffsetOfField(GcProtectionRequest, i) % GcProtectionRequest[i].size = 0
    /\ FieldsCover(GcProtectionRequest, 16)

C2_Witness ==
    /\ alignCap = 8
    /\ reqState = "ready"
    /\ Len(reqBuf) = 16
    /\ sentReq.identifier = U32Max
    /\ \A i \in 5..8 : reqBuf[i] = 255

\* C3: the wire values are RequestBufferReady = 2 and
\* ConservativeReportingBufferReady = 3 (32 bits unsigned),
\* EnsureConservativeReporting = 1, RemoveConservativeReporting = 2 and
\* RemoveHandle = 3 (16 bits unsigned); within each enumeration the values
\* are pairwise distinct, so a wire value a consumer loads stands for at most
\* one named constant, and 0 is a value of neither enumeration.
C3_WireValues ==
    /\ RequestBufferReady = 2
    /\ ConservativeReportingBufferReady = 3
    /\ \A v \in {RequestBufferReady, ConservativeReportingBufferReady} :
           v >= 0 /\ v \div 65536 < 65536
    /\ EnsureConservativeReporting = 1
    /\ RemoveConservativeReporting = 2
    /\ RemoveHandle = 3
    /\ \A v \in {EnsureConservativeReporting, RemoveConservativeReporting,
                 RemoveHandle} : v >= 0 /\ v < 65536
    /\ Cardinality({RequestBufferReady, ConservativeReportingBufferReady}) = 2
    /\ Cardinality({EnsureConservativeReporting, RemoveConservativeReporting,
                    RemoveHandle}) = 3
    /\ 0 \notin {RequestBufferReady, ConservativeReportingBufferReady}
    /\ 0 \notin {EnsureConservativeReporting, RemoveConservativeReporting,
                 RemoveHandle}
    /\ msgState = "read" => Cardinality(MessageNamesOf(recvMsg.commandCode)) <= 1
    /\ reqState = "read" => Cardinality(RequestNamesOf(recvReq.kind)) <= 1
    /\ MessageNamesOf(U32(0)) = {}
    /\ RequestNamesOf(U16(0)) = {}

C3_Witness ==
    /\ msgState = "read"
    /\ MessageNamesOf(recvMsg.commandCode)
         = {<<"ConservativeReportingBufferReady", 3>>}
    /\ reqState = "read"
    /\ RequestNamesOf(recvReq.kind) = {<<"RemoveHandle", 3>>}

\* C4: for every commandCode in {RequestBufferReady,
\* ConservativeReportingBufferReady}, every unused and every bufferAddress,
\* storing the message and loading the same bytes back yields the original
\* commandCode and bufferAddress.
C4_MessageRoundTrip ==
    (/\ msgState = "read"
     /\ sentMsg.commandCode \in {U32(RequestBufferReady),
                                 U32(ConservativeReportingBufferReady)})
    => /\ recvMsg.commandCode = sentMsg.commandCode
       /\ recvMsg.bufferAddress = sentMsg.bufferAddress

C4_Witness ==
    /\ msgState = "read"
    /\ sentMsg.commandCode = U32(ConservativeReportingBufferReady)
    /\ sentMsg.unused = U32Max
    /\ sentMsg.bufferAddress = U64Max
    /\ recvMsg.commandCode = U32(3)
    /\ recvMsg.bufferAddress = U64Max

\* C5: for every kind in {EnsureConservativeReporting,
\* RemoveConservativeReporting, RemoveHandle}, every size, identifier and
\* address, storing the request and loading the same bytes back yields exactly
\* the original kind, size, identifier and address, also at each field's
\* maximum value.
C5_RequestRoundTrip ==
    (/\ reqState = "read"
     /\ sentReq.kind \in {U16(EnsureConservativeReporting),
                          U16(RemoveConservativeReporting),
                          U16(RemoveHandle)})
    => /\ recvReq.kind = sentReq.kind
       /\ recvReq.size = sentReq.size
       /\ recvReq.identifier = sentReq.identifier
       /\ recvReq.address = sentReq.address

C5_Witness ==
    /\ reqState = "read"
    /\ sentReq = [kind |-> U16(RemoveHandle), size |-> U16Max,
                  identifier |-> U32Max, address |-> U64(8192)]
    /\ recvReq.size = U16Max
    /\ recvReq.identifier = U32Max
    /\ recvReq.address = U64(8192)

\* C6: a buffer loaded as a GcProtectionMessage whose first 32-bit field
\* holds a value other than 2 and 3 (0, 1, 4, ...) is an unrecognized message
\* for the consumer, and it is classified as one of the two named commands
\* only when the field holds that command's value.
C6_UnrecognizedMessage ==
    msgState = "read" =>
        LET code == LoadField(msgBuf, GcProtectionMessage, "commandCode")
        IN  /\ code \notin {<<2, 0>>, <<3, 0>>} => msgClass = "UnrecognizedMessage"
            /\ msgClass = "RequestBufferReady" <=> code = <<2, 0>>
            /\ msgClass = "ConservativeReportingBufferReady" <=> code = <<3, 0>>

C6_Witness ==
    /\ msgState = "read"
    /\ LoadField(msgBuf, GcProtectionMessage, "commandCode") = <<1, 0>>
    /\ msgClass = "UnrecognizedMessage"

\* C7: a buffer loaded as a GcProtectionRequest whose first 16-bit field
\* holds a value other than 1, 2 and 3 (0, 4, ...) is an unrecognized request
\* for the consumer, and it is classified as one of the three named kinds
\* only when the field holds that kind's value.
C7_UnrecognizedRequest ==
    reqState = "read" =>
        LET kind == LoadField(reqBuf, GcProtectionRequest, "kind")
        IN  /\ kind \notin {<<1>>, <<2>>, <<3>>} => reqClass = "UnrecognizedRequest"
            /\ reqClass = "EnsureConservativeReporting" <=> kind = <<1>>
            /\ reqClass = "RemoveConservativeReporting" <=> kind = <<2>>
            /\ reqClass = "RemoveHandle" <=> kind = <<3>>

C7_Witness ==
    /\ reqState = "read"
    /\ LoadField(reqBuf, GcProtectionRequest, "kind") = <<4>>
    /\ reqClass = "UnrecognizedRequest"

\* C8: two messages with the same commandCode and bufferAddress and
\* different unused values load as the same logical message, and their
\* encodings differ only in bytes 4..7.
C8_UnusedCarriesNoMeaning ==
    msgState # "empty" =>
        \A u \in UnusedValues \ {sentMsg.unused} :
            LET other == StoreMessage(ZeroBytes(Len(msgBuf)),
                                      [sentMsg EXCEPT !.unused = u])
            IN  /\ \A i \in 1..Len(msgBuf) :
                       other[i] # msgBuf[i] => i \in 5..8
                /\ other # msgBuf
                /\ LoadMessage(other).commandCode = LoadMessage(msgBuf).commandCode
                /\ LoadMessage(other).bufferAddress
                     = LoadMessage(msgBuf).bufferAddress
                /\ LoadMessage(other).commandCode = sentMsg.commandCode
                /\ LoadMessage(other).bufferAddress = sentMsg.bufferAddress

C8_Witness ==
    /\ msgState = "read"
    /\ sentMsg.unused = U32Max
    /\ \A i \in 5..8 : msgBuf[i] = 255
    /\ recvMsg.commandCode = U32(RequestBufferReady)
    /\ recvMsg.bufferAddress = <<513, 1027, 1541, 2055>>

\* C9: under little-endian byte order commandCode is stored least-significant
\* byte first in bytes 0..3, unused in bytes 4..7 and bufferAddress in bytes
\* 8..15; {commandCode = 2, unused = 0, bufferAddress = 0x1000} is stored as
\* 02 00 00 00 00 00 00 00 00 10 00 00 00 00 00 00 and those bytes load as
\* commandCode 2, unused 0 and bufferAddress 0x1000.
C9_MessageBytes ==
    (byteOrder = "little" /\ msgState # "empty") =>
        /\ msgBuf = LeastSignificantFirst(sentMsg.commandCode, 4)
                    \o LeastSignificantFirst(sentMsg.unused, 4)
                    \o LeastSignificantFirst(sentMsg.bufferAddress, 8)
        /\ sentMsg = [commandCode |-> <<2, 0>>, unused |-> <<0, 0>>,
                      bufferAddress |-> <<4096, 0, 0, 0>>]
           => msgBuf = <<2, 0, 0, 0, 0, 0, 0, 0, 0, 16, 0, 0, 0, 0, 0, 0>>
        /\ (/\ msgState = "read"
            /\ msgBuf = <<2, 0, 0, 0, 0, 0, 0, 0, 0, 16, 0, 0, 0, 0, 0, 0>>)
           => recvMsg = [commandCode |-> <<2, 0>>, unused |-> <<0, 0>>,
                         bufferAddress |-> <<4096, 0, 0, 0>>]

C9_Witness ==
    /\ byteOrder = "little"
    /\ msgState = "read"
    /\ msgBuf = <<2, 0, 0, 0, 0, 0, 0, 0, 0, 16, 0, 0, 0, 0, 0, 0>>
    /\ recvMsg.bufferAddress = <<4096, 0, 0, 0>>

\* C10: under little-endian byte order kind is stored least-significant byte
\* first in bytes 0..1, size in bytes 2..3, identifier in bytes 4..7 and
\* address in bytes 8..15; {kind = 1, size = 64, identifier = 7,
\* address = 0x2000} is stored as
\* 01 00 40 00 07 00 00 00 00 20 00 00 00 00 00 00 and those bytes load as
\* kind 1, size 64, identifier 7 and address 0x2000.
C10_RequestBytes ==
    (byteOrder = "little" /\ reqState # "empty") =>
        /\ reqBuf = LeastSignificantFirst(sentReq.kind, 2)
                    \o LeastSignificantFirst(sentReq.size, 2)
                    \o LeastSignificantFirst(sentReq.identifier, 4)
                    \o LeastSignificantFirst(sentReq.address, 8)
        /\ sentReq = [kind |-> <<1>>, size |-> <<64>>, identifier |-> <<7, 0>>,
                      address |-> <<8192, 0, 0, 0>>]
           => reqBuf = <<1, 0, 64, 0, 7, 0, 0, 0, 0, 32, 0, 0, 0, 0, 0, 0>>
        /\ (/\ reqState = "read"
            /\ reqBuf = <<1, 0, 64, 0, 7, 0, 0, 0, 0, 32, 0, 0, 0, 0, 0, 0>>)
           => recvReq = [kind |-> <<1>>, size |-> <<64>>, identifier |-> <<7, 0>>,
                         address |-> <<8192, 0, 0, 0>>]

C10_Witness ==
    /\ byteOrder = "little"
    /\ reqState = "read"
    /\ reqBuf = <<1, 0, 64, 0, 7, 0, 0, 0, 0, 32, 0, 0, 0, 0, 0, 0>>
    /\ recvReq.address = <<8192, 0, 0, 0>>
====
